---- MODULE Spec2Model ----
(***************************************************************************)
(* The regional tunnel broker of klawroute (the TypeScript program carried *)
(* by src/api/deploy/setup-wireguard.sh) as a state machine.               *)
(*                                                                         *)
(* The broker runs on a single-threaded event loop: a handler runs         *)
(* without interruption up to its next `await` of an external call (the    *)
(* keeper's HTTP API, a `wg` command).  Every action below is one such     *)
(* uninterrupted run.  A verifyToken call answered from the cache does not *)
(* leave the event loop, so it is part of the run that makes it.           *)
(*                                                                         *)
(* The edge router in front of the regional brokers (src/unnamed/part_000)  *)
(* is modelled at the end of the module, with the brokers taken by the     *)
(* responses they give it.                                                 *)
(*                                                                         *)
(* Time is counted in whole seconds (the code's Date arithmetic is in      *)
(* milliseconds, floored to seconds wherever a duration is computed).      *)
(***************************************************************************)
EXTENDS Integers, Sequences, FiniteSets, TLC

(***************************************************************************)
(* Bounds of the model.                                                    *)
(***************************************************************************)
MaxTunnels == 2
MaxTime == 70
TimeStep == 10

(***************************************************************************)
(* Program constants (seconds where the code has milliseconds).            *)
(***************************************************************************)
TOKEN_CACHE_TTL == 60
USAGE_REPORT_INTERVAL == 30
CLEANUP_INTERVAL == 10
BILLING_INTERVAL == 60
BILLING_MINUTE == 60
FIRST_CLIENT_IP == 2
LAST_CLIENT_IP == 254
MIN_DURATION == 30
MAX_DURATION == 3600
DEFAULT_DURATION == 300
\* the broker's region tag, `process.env.KEYROUTE_REGION || 'unknown'`
REGION == "unknown"

(***************************************************************************)
(* Inputs.  A token is the raw bearer string; NoToken is the empty string  *)
(* left by a header that is exactly "Bearer ".  The keeper maps a token it *)
(* knows to an agent.                                                      *)
(***************************************************************************)
NoToken == ""
Tokens == {"tokA", "tokB"}
AgentOf(token) == IF token = "tokA" THEN "agentA" ELSE "agentB"
\* body.duration values a create is tried with (0 stands for a missing one)
DurationInputs == {30, 55, 65}

VARIABLES
    now,            \* the wall clock, seconds since the process started
    tunnels,        \* the Map `tunnels`, as the sequence of its values in insertion order
    nextClientIP,   \* the allocator counter
    idsIssued,      \* how many tunnel ids crypto.randomBytes has produced (ids are taken as fresh)
    pendingUsage,   \* the array `pendingUsage`
    tokenCache,     \* the Map `tokenCache`: token -> entry or NoEntry
    peers,          \* the kernel's peers on the WireGuard interface: set of [key, ip]
    reqs,           \* the HTTP handlers in progress, one per slot
    scan,           \* the cleanupExpiredTunnels invocation in progress, if any
    inflight,       \* the batches of reportUsage calls awaiting the keeper's answer
    delivered,      \* history: the usage records the keeper has accepted
    billed,         \* history: every usage record ever pushed, with the span it covers
    nextCleanupAt,  \* when the 10 s interval timer is due
    nextBillAt,     \* when the 60 s interval timer is due
    nextReportAt,   \* when the report interval timer is due
    proc,           \* the process: running, in its shutdown handler's report, or exited (`at`: when the signal came)
    edge,           \* the edge router's request in progress: the brokers asked and their answers
    overlap         \* a second cleanupExpiredTunnels invocation, started while `scan` is suspended

vars == <<now, tunnels, nextClientIP, idsIssued, pendingUsage, tokenCache, peers,
          reqs, scan, inflight, delivered, billed,
          nextCleanupAt, nextBillAt, nextReportAt, proc, edge, overlap>>

(***************************************************************************)
(* Helpers.                                                                *)
(***************************************************************************)
Max(a, b) == IF a >= b THEN a ELSE b
Min(a, b) == IF a <= b THEN a ELSE b

\* the index of the tunnel with this id in the registry, 0 when there is none
TunnelIndex(id) ==
    IF \E i \in 1..Len(tunnels) : tunnels[i].id = id
    THEN CHOOSE i \in 1..Len(tunnels) : tunnels[i].id = id
    ELSE 0

NoAuth == [valid |-> FALSE, agent_id |-> "", can_afford |-> TRUE]
NoTunnel == [id |-> 0]
NoBody == [status |-> "", duration_seconds |-> 0, expires_at |-> 0, client_ip |-> 0]
IdleReq == [kind |-> "idle", pc |-> "idle", token |-> NoToken, id |-> 0, duration |-> 0,
            auth |-> NoAuth, tunnel |-> NoTunnel, code |-> 0, body |-> NoBody]
IdleScan == [pc |-> "idle", now |-> 0, pos |-> 0]
IdleEdge == [pc |-> "idle", method |-> "", next |-> 0, contacted |-> <<>>, answers |-> <<>>, status |-> 0]
Running == [pc |-> "running", records |-> <<>>, at |-> 0]
Exited == [pc |-> "exited", records |-> <<>>, at |-> 0]

(***************************************************************************)
(* Keeper client: verifyToken.                                             *)
(***************************************************************************)
\* what the keeper's verify endpoint may answer for a token: a successful
\* verification (the agent can or cannot afford the quantity asked about), or
\* valid=false (unknown or revoked token; a transport failure is mapped to it).
InvalidAuth == [valid |-> FALSE, agent_id |-> "", can_afford |-> TRUE]
ValidAuth(token, afford) == [valid |-> TRUE, agent_id |-> AgentOf(token), can_afford |-> afford]
KeeperAnswers(token) == {ValidAuth(token, TRUE), ValidAuth(token, FALSE), InvalidAuth}

\* an entry of tokenCache. `quantity` is not stored by the code: it records, for
\* the properties, which quantity the cached answer was given for.
NoEntry == [result |-> InvalidAuth, expires |-> 0, quantity |-> 0]

\* `cached && cached.expires > Date.now()`
CacheHitAnyAge(token) == tokenCache[token] # NoEntry
CacheHit(token) == tokenCache[token] # NoEntry /\ tokenCache[token].expires > now

\* `if (data.valid) tokenCache.set(token, {result: data, expires: Date.now() + TTL})`
CacheStoreAlways(cache, token, data, quantity) ==
    [cache EXCEPT ![token] = [result |-> data, expires |-> now + TOKEN_CACHE_TTL,
                              quantity |-> quantity]]
CacheStore(cache, token, data, quantity) ==
    IF data.valid
    THEN [cache EXCEPT ![token] = [result |-> data, expires |-> now + TOKEN_CACHE_TTL,
                                   quantity |-> quantity]]
    ELSE cache

(***************************************************************************)
(* Peer controller: the effect of the `wg set` commands on the kernel.     *)
(* An allowed IP belongs to one peer: giving it to a peer takes it from    *)
(* any other peer (ip 0: a peer left with no allowed IP).                  *)
(***************************************************************************)
AddPeerKernel(ps, key, ip) ==
    {IF p.ip = ip THEN [p EXCEPT !.ip = 0] ELSE p : p \in {q \in ps : q.key # key}}
        \cup {[key |-> key, ip |-> ip]}
RemovePeerKernel(ps, key) == {p \in ps : p.key # key}

\* the outcome of addPeer / removePeer: the command ran, or it threw and the
\* kernel is as before
AddPeer(ps, key, ip, ok) == IF ok THEN AddPeerKernel(ps, key, ip) ELSE ps
RemovePeer(ps, key, ok) == IF ok THEN RemovePeerKernel(ps, key) ELSE ps

(***************************************************************************)
(* Usage records.  quantity is duration_seconds / 3600 and is not carried. *)
(* A history entry adds the end of the span the record pays for: the new   *)
(* cursor (periodic), expires_at (expiry) or the close time (close).       *)
(***************************************************************************)
UsageRecord(t, seconds) ==
    [agent_id |-> t.agent_id, tunnel_id |-> t.id, duration_seconds |-> seconds, timestamp |-> now]
BilledEntry(t, seconds, upto, path) ==
    [record |-> UsageRecord(t, seconds), tunnel_id |-> t.id, duration_seconds |-> seconds,
     upto |-> upto, path |-> path]

(***************************************************************************)
(* HTTP surface.                                                           *)
(***************************************************************************)
\* body.duration as JSON.parse leaves it: a number, absent, or a string that is
\* not a numeral; NotANumber is the NaN that arithmetic on such a string gives
Number(n) == [kind |-> "number", n |-> n]
Missing == [kind |-> "missing", n |-> 0]
Text == [kind |-> "text", n |-> 0]
NotANumber == [kind |-> "NaN", n |-> 0]

\* `body.duration || 300`: undefined and 0 are falsy, a non-empty string is not
OrDefault(v) ==
    IF v.kind = "missing" \/ (v.kind = "number" /\ v.n = 0) THEN Number(DEFAULT_DURATION) ELSE v
\* `Math.min(x, 3600)` and `Math.max(30, x)`: NaN when x does not convert to a number
MathMin(v, m) == IF v.kind = "number" THEN Number(Min(v.n, m)) ELSE NotANumber
MathMax(m, v) == IF v.kind = "number" THEN Number(Max(m, v.n)) ELSE NotANumber
\* `Math.max(30, Math.min(body.duration || 300, 3600))`
EffectiveDuration(v) == MathMax(MIN_DURATION, MathMin(OrDefault(v), MAX_DURATION))
\* `new Date(now.getTime() + duration * 1000)`: an Invalid Date when duration is NaN
ExpiresAt(at, d) == IF d.kind = "number" THEN Number(at + d.n) ELSE NotANumber

\* the clamp on a numeric body.duration (0 also stands for a missing one)
Duration(d) == EffectiveDuration(Number(d)).n

\* `quantity: number = 1` tunnel hours is what verifyToken asks about by default;
\* POST asks about `duration / 3600` hours. The model counts the quantity in
\* seconds, to stay within the integers.
DEFAULT_QUANTITY == 1
HOUR == 3600
QuantityAsked(r) == IF r.kind = "POST" THEN Duration(r.duration) ELSE DEFAULT_QUANTITY * HOUR

\* `nextClientIP++; if (nextClientIP > 254) nextClientIP = 2`
NextIP(ip) == IF ip + 1 > LAST_CLIENT_IP THEN FIRST_CLIENT_IP ELSE ip + 1

\* `tunnel.status === 'active' && tunnel.expires_at < now`
IsExpiredAnyStatus(t, at) == t.expires_at < at
IsExpiredAfterGrace(t, at) == t.status = "active" /\ t.expires_at + BILLING_MINUTE < at
IsExpired(t, at) == t.status = "active" /\ t.expires_at < at

ErrBody(msg) == [error |-> msg]

Finish(s, r, auth, code, body) ==
    reqs' = [reqs EXCEPT ![s] = [r EXCEPT !.pc = "done", !.auth = auth, !.code = code, !.body = body]]
Suspend(s, r, auth, pc, body) ==
    reqs' = [reqs EXCEPT ![s] = [r EXCEPT !.pc = pc, !.auth = auth, !.body = body]]

registry == <<tunnels, nextClientIP, idsIssued, pendingUsage, peers, billed>>

\* `auth.can_afford === false`
InsufficientCreditsNever(auth) == FALSE
InsufficientCredits(auth) == auth.can_afford = FALSE

\* `tunnel.agent_id !== auth.agent_id`
NotOwnerNever(t, auth) == FALSE
NotOwner(t, auth) == t.agent_id # auth.agent_id

\* `tunnel.status !== 'active'`
AlreadyClosedNever(t) == FALSE
AlreadyClosedNotExpired(t) == t.status = "closed"
AlreadyClosed(t) == t.status # "active"

\* `tunnel.status = 'closed'; tunnel.expires_at = closedAt`
CloseKeepStatus(t, closedAt) == [t EXCEPT !.expires_at = closedAt]
Close(t, closedAt) == [t EXCEPT !.status = "closed", !.expires_at = closedAt]

\* `if (!added) console.warn(...); tunnels.set(tunnelId, tunnel)`
StoreTunnelIfAdded(ts, t, added) == IF added THEN Append(ts, t) ELSE ts
StoreTunnel(ts, t, added) == Append(ts, t)

\* POST /v1/tunnel from the return of verifyToken to the await of addPeer
PostAfterVerify(s, r, auth) ==
    IF ~auth.valid
    THEN Finish(s, r, auth, 401, ErrBody("Unauthorized")) /\ UNCHANGED registry
    ELSE IF InsufficientCredits(auth)
    THEN Finish(s, r, auth, 402, ErrBody("Insufficient credits")) /\ UNCHANGED registry
    ELSE LET tunnelId == idsIssued + 1
             tunnel == [id |-> tunnelId,
                        agent_id |-> auth.agent_id,
                        region |-> REGION,
                        created_at |-> now,
                        expires_at |-> now + Duration(r.duration),
                        client_public_key |-> tunnelId,
                        client_ip |-> nextClientIP,
                        status |-> "active",
                        last_billed_at |-> now]
         IN /\ idsIssued' = idsIssued + 1
            /\ nextClientIP' = NextIP(nextClientIP)
            /\ reqs' = [reqs EXCEPT ![s] = [r EXCEPT !.pc = "addPeer", !.auth = auth, !.tunnel = tunnel]]
            /\ UNCHANGED <<tunnels, pendingUsage, peers, billed>>

GetBodyUntilNow(t) ==
    [tunnel_id |-> t.id, region |-> t.region, status |-> t.status, created_at |-> t.created_at,
     expires_at |-> IF t.status = "active" THEN now ELSE t.expires_at,
     duration_seconds |-> (IF t.status = "active" THEN now ELSE t.expires_at) - t.created_at]
GetBody(t) ==
    [tunnel_id |-> t.id, region |-> t.region, status |-> t.status, created_at |-> t.created_at,
     expires_at |-> t.expires_at,
     duration_seconds |-> (IF t.status = "active" THEN now ELSE t.expires_at) - t.created_at]

\* GET /v1/tunnel/:id from the return of verifyToken to the response or the await of removePeer
GetAfterVerify(s, r, auth) ==
    LET i == TunnelIndex(r.id) IN
    IF ~auth.valid
    THEN Finish(s, r, auth, 401, ErrBody("Unauthorized")) /\ UNCHANGED registry
    ELSE IF i = 0
    THEN Finish(s, r, auth, 404, ErrBody("Tunnel not found")) /\ UNCHANGED registry
    ELSE IF NotOwner(tunnels[i], auth)
    THEN Finish(s, r, auth, 403, ErrBody("Unauthorized")) /\ UNCHANGED registry
    ELSE IF IsExpired(tunnels[i], now)
    THEN /\ tunnels' = [tunnels EXCEPT ![i].status = "expired"]
         /\ Suspend(s, r, auth, "removePeer", NoBody)
         /\ UNCHANGED <<nextClientIP, idsIssued, pendingUsage, peers, billed>>
    ELSE Finish(s, r, auth, 200, GetBody(tunnels[i])) /\ UNCHANGED registry

\* the seconds a close bills: `Math.floor((closedAt - last_billed_at) / 1000)`
UnbilledSecondsFromCreation(t, closedAt) == closedAt - t.created_at
UnbilledSeconds(t, closedAt) == closedAt - t.last_billed_at

\* DELETE /v1/tunnel/:id from the return of verifyToken to the response or the await of removePeer
DeleteAfterVerify(s, r, auth) ==
    LET i == TunnelIndex(r.id) IN
    IF ~auth.valid
    THEN Finish(s, r, auth, 401, ErrBody("Unauthorized")) /\ UNCHANGED registry
    ELSE IF i = 0
    THEN Finish(s, r, auth, 404, ErrBody("Tunnel not found")) /\ UNCHANGED registry
    ELSE IF NotOwner(tunnels[i], auth)
    THEN Finish(s, r, auth, 403, ErrBody("Unauthorized")) /\ UNCHANGED registry
    ELSE IF AlreadyClosed(tunnels[i])
    THEN Finish(s, r, auth, 400, ErrBody("Tunnel already closed")) /\ UNCHANGED registry
    ELSE LET t == tunnels[i]
             closedAt == now
             durationSeconds == closedAt - t.created_at
             unbilledSeconds == UnbilledSeconds(t, closedAt)
         IN /\ IF unbilledSeconds > 0
               THEN /\ pendingUsage' = Append(pendingUsage, UsageRecord(t, unbilledSeconds))
                    /\ billed' = Append(billed, BilledEntry(t, unbilledSeconds, closedAt, "close"))
               ELSE UNCHANGED <<pendingUsage, billed>>
            /\ tunnels' = [tunnels EXCEPT ![i] = Close(t, closedAt)]
            /\ Suspend(s, r, auth, "removePeer",
                       [tunnel_id |-> t.id, status |-> "closed", duration_seconds |-> durationSeconds])
            /\ UNCHANGED <<nextClientIP, idsIssued, peers>>

Summary(t) == [tunnel_id |-> t.id, region |-> t.region, status |-> t.status, created_at |-> t.created_at,
               expires_at |-> t.expires_at]
RECURSIVE AgentTunnelsActive(_, _)
AgentTunnelsActive(ts, agent) ==
    IF ts = <<>> THEN <<>>
    ELSE IF Head(ts).agent_id = agent /\ Head(ts).status = "active"
         THEN <<Summary(Head(ts))>> \o AgentTunnelsActive(Tail(ts), agent)
         ELSE AgentTunnelsActive(Tail(ts), agent)
RECURSIVE AgentTunnels(_, _)
AgentTunnels(ts, agent) ==
    IF ts = <<>> THEN <<>>
    ELSE IF Head(ts).agent_id = agent
         THEN <<Summary(Head(ts))>> \o AgentTunnels(Tail(ts), agent)
         ELSE AgentTunnels(Tail(ts), agent)

\* GET /v1/tunnels from the return of verifyToken to the response
ListAfterVerify(s, r, auth) ==
    IF ~auth.valid
    THEN Finish(s, r, auth, 401, ErrBody("Unauthorized")) /\ UNCHANGED registry
    ELSE /\ Finish(s, r, auth, 200,
                   [agent_id |-> auth.agent_id, tunnels |-> AgentTunnels(tunnels, auth.agent_id)])
         /\ UNCHANGED registry

AfterVerify(s, r, auth) ==
    CASE r.kind = "POST" -> PostAfterVerify(s, r, auth)
      [] r.kind = "GET" -> GetAfterVerify(s, r, auth)
      [] r.kind = "DELETE" -> DeleteAfterVerify(s, r, auth)
      [] r.kind = "LIST" -> ListAfterVerify(s, r, auth)

rest == <<now, scan, inflight, delivered, nextCleanupAt, nextBillAt, nextReportAt, proc, edge, overlap>>

\* a handler from the arrival of its request to the first await: verifyToken
\* answers at once without a token or from the cache, else it awaits the keeper
Begin(s, r) ==
    /\ reqs[s].pc \in {"idle", "done"}
    /\ IF r.token = NoToken
       THEN AfterVerify(s, r, InvalidAuth) /\ UNCHANGED tokenCache
       ELSE IF CacheHit(r.token)
       THEN AfterVerify(s, r, tokenCache[r.token].result) /\ UNCHANGED tokenCache
       ELSE /\ reqs' = [reqs EXCEPT ![s] = [r EXCEPT !.pc = "verify"]]
            /\ UNCHANGED <<registry, tokenCache>>
    /\ UNCHANGED rest

\* the keeper's answer arrives: verifyToken caches it if valid and returns it
Verified(s, kind, data) ==
    /\ reqs[s].kind = kind
    /\ reqs[s].pc = "verify"
    /\ tokenCache' = CacheStore(tokenCache, reqs[s].token, data, QuantityAsked(reqs[s]))
    /\ AfterVerify(s, reqs[s], data)
    /\ UNCHANGED rest

Request(kind, token, id, duration) ==
    [IdleReq EXCEPT !.kind = kind, !.token = token, !.id = id, !.duration = duration]

\* the POST handlers that have not yet drawn their tunnel id
PostsWaiting == Cardinality({s \in DOMAIN reqs : reqs[s].kind = "POST" /\ reqs[s].pc = "verify"})

PostBegin(s, token, d, cap) ==
    /\ idsIssued + PostsWaiting < cap
    /\ Begin(s, Request("POST", token, 0, d))
PostVerified(s, data) == Verified(s, "POST", data)

\* addPeer has returned: `tunnels.set(tunnelId, tunnel)` and the 201
PostPeerDone(s, ok) ==
    /\ reqs[s].kind = "POST"
    /\ reqs[s].pc = "addPeer"
    /\ LET t == reqs[s].tunnel IN
        /\ peers' = AddPeer(peers, t.client_public_key, t.client_ip, ok)
        /\ tunnels' = StoreTunnel(tunnels, t, ok)
        /\ Finish(s, reqs[s], reqs[s].auth, 201,
                  [tunnel_id |-> t.id, region |-> REGION, expires_at |-> t.expires_at,
                   client_ip |-> t.client_ip])
    /\ UNCHANGED <<nextClientIP, idsIssued, pendingUsage, billed, tokenCache>>
    /\ UNCHANGED rest

GetBegin(s, token, id) == Begin(s, Request("GET", token, id, 0))
GetVerified(s, data) == Verified(s, "GET", data)

\* removePeer has returned to the GET handler: the response is built from the record as it is now
GetPeerDone(s, ok) ==
    /\ reqs[s].kind = "GET"
    /\ reqs[s].pc = "removePeer"
    /\ LET t == tunnels[TunnelIndex(reqs[s].id)] IN
        /\ peers' = RemovePeer(peers, t.client_public_key, ok)
        /\ Finish(s, reqs[s], reqs[s].auth, 200, GetBody(t))
    /\ UNCHANGED <<tunnels, nextClientIP, idsIssued, pendingUsage, billed, tokenCache>>
    /\ UNCHANGED rest

DeleteBegin(s, token, id) == Begin(s, Request("DELETE", token, id, 0))
DeleteVerified(s, data) == Verified(s, "DELETE", data)

\* removePeer has returned to the DELETE handler: the 200
DeletePeerDone(s, ok) ==
    /\ reqs[s].kind = "DELETE"
    /\ reqs[s].pc = "removePeer"
    /\ LET t == tunnels[TunnelIndex(reqs[s].id)] IN
        /\ peers' = RemovePeer(peers, t.client_public_key, ok)
        /\ Finish(s, reqs[s], reqs[s].auth, 200, reqs[s].body)
    /\ UNCHANGED <<tunnels, nextClientIP, idsIssued, pendingUsage, billed, tokenCache>>
    /\ UNCHANGED rest

ListBegin(s, token) == Begin(s, Request("LIST", token, 0, 0))
ListVerified(s, data) == Verified(s, "LIST", data)

(***************************************************************************)
(* Metering engine: periodic accrual.                                      *)
(***************************************************************************)
\* the seconds billActiveTunnels bills a tunnel at `at`: whole minutes since
\* the cursor, when the tunnel is active and at least one minute is unbilled
SecondsToBillAnyStatus(t, at) ==
    IF at - t.last_billed_at >= BILLING_MINUTE
    THEN ((at - t.last_billed_at) \div BILLING_MINUTE) * BILLING_MINUTE
    ELSE 0
SecondsToBill(t, at) ==
    IF t.status = "active" /\ at - t.last_billed_at >= BILLING_MINUTE
    THEN ((at - t.last_billed_at) \div BILLING_MINUTE) * BILLING_MINUTE
    ELSE 0

\* `tunnel.last_billed_at = new Date(tunnel.last_billed_at.getTime() + minutesToBill * 60 * 1000)`
AdvanceCursorToNow(t, at) == [t EXCEPT !.last_billed_at = IF SecondsToBill(t, at) > 0 THEN at ELSE @]
AdvanceCursor(t, at) == [t EXCEPT !.last_billed_at = @ + SecondsToBill(t, at)]

RECURSIVE PeriodicRecords(_, _)
PeriodicRecords(ts, at) ==
    IF ts = <<>> THEN <<>>
    ELSE (IF SecondsToBill(Head(ts), at) > 0
          THEN <<UsageRecord(Head(ts), SecondsToBill(Head(ts), at))>>
          ELSE <<>>) \o PeriodicRecords(Tail(ts), at)

RECURSIVE PeriodicEntries(_, _)
PeriodicEntries(ts, at) ==
    IF ts = <<>> THEN <<>>
    ELSE (IF SecondsToBill(Head(ts), at) > 0
          THEN <<BilledEntry(Head(ts), SecondsToBill(Head(ts), at),
                             AdvanceCursor(Head(ts), at).last_billed_at, "periodic")>>
          ELSE <<>>) \o PeriodicEntries(Tail(ts), at)

\* billActiveTunnels
BillActiveTunnels ==
    /\ tunnels' = [i \in 1..Len(tunnels) |-> AdvanceCursor(tunnels[i], now)]
    /\ pendingUsage' = pendingUsage \o PeriodicRecords(tunnels, now)
    /\ billed' = billed \o PeriodicEntries(tunnels, now)

\* the 60 s interval timer fires
BillTick ==
    /\ now >= nextBillAt
    /\ nextBillAt' = now + BILLING_INTERVAL
    /\ BillActiveTunnels
    /\ UNCHANGED <<edge, overlap, nextClientIP, idsIssued, tokenCache, peers, reqs, scan, inflight, delivered,
                   now, nextCleanupAt, nextReportAt, proc>>

(***************************************************************************)
(* Lifecycle supervisor: cleanupExpiredTunnels.  The loop walks the Map in *)
(* insertion order with the `now` read at its start, and is suspended in   *)
(* each expiry at `await removePeer`.                                      *)
(***************************************************************************)
\* the first tunnel at or after position `from` that the loop expires, 0 if none
NextExpiredOnce(from, scanNow) ==
    IF from = 1 /\ \E i \in 1..Len(tunnels) : IsExpired(tunnels[i], scanNow)
    THEN CHOOSE i \in 1..Len(tunnels) :
            /\ IsExpired(tunnels[i], scanNow)
            /\ \A j \in 1..(i - 1) : ~IsExpired(tunnels[j], scanNow)
    ELSE 0
NextExpired(from, scanNow) ==
    IF \E i \in from..Len(tunnels) : IsExpired(tunnels[i], scanNow)
    THEN CHOOSE i \in from..Len(tunnels) :
            /\ IsExpired(tunnels[i], scanNow)
            /\ \A j \in from..(i - 1) : ~IsExpired(tunnels[j], scanNow)
    ELSE 0

\* `Math.floor((expires_at - last_billed_at) / 1000)`
RemainingSecondsFromCreation(t) == t.expires_at - t.created_at
RemainingSeconds(t) == t.expires_at - t.last_billed_at

\* the loop from position `from` up to its next await, or to its end
CleanupRun(from, scanNow) ==
    LET i == NextExpired(from, scanNow) IN
    IF i = 0
    THEN scan' = IdleScan /\ UNCHANGED <<tunnels, pendingUsage, billed>>
    ELSE LET t == tunnels[i]
             remainingSeconds == RemainingSeconds(t)
         IN /\ IF remainingSeconds > 0
               THEN /\ pendingUsage' = Append(pendingUsage, UsageRecord(t, remainingSeconds))
                    /\ billed' = Append(billed, BilledEntry(t, remainingSeconds, t.expires_at, "expiry"))
               ELSE UNCHANGED <<pendingUsage, billed>>
            /\ tunnels' = [tunnels EXCEPT ![i].status = "expired"]
            /\ scan' = [pc |-> "removePeer", now |-> scanNow, pos |-> i]

\* the 10 s interval timer fires (a scan ends within the second it starts in,
\* so none is in progress)
CleanupTick ==
    /\ now >= nextCleanupAt
    /\ scan.pc = "idle"
    /\ nextCleanupAt' = now + CLEANUP_INTERVAL
    /\ CleanupRun(1, now)
    /\ UNCHANGED <<edge, overlap, nextClientIP, idsIssued, tokenCache, peers, reqs, inflight, delivered,
                   now, nextBillAt, nextReportAt, proc>>

\* removePeer has returned to the scan: the loop goes on
CleanupPeerDone(ok) ==
    /\ scan.pc = "removePeer"
    /\ peers' = RemovePeer(peers, tunnels[scan.pos].client_public_key, ok)
    /\ CleanupRun(scan.pos + 1, scan.now)
    /\ UNCHANGED <<edge, overlap, nextClientIP, idsIssued, tokenCache, reqs, inflight, delivered,
                   now, nextCleanupAt, nextBillAt, nextReportAt, proc>>

(***************************************************************************)
(* Metering engine: batched delivery, reportUsage.                         *)
(***************************************************************************)
\* reportUsage up to its await of the keeper: `pendingUsage.splice(0, length)`
ReportUsage ==
    IF pendingUsage = <<>>
    THEN UNCHANGED <<pendingUsage, inflight>>
    ELSE /\ inflight' = Append(inflight, pendingUsage)
         /\ pendingUsage' = <<>>

\* the report interval timer fires
ReportTick ==
    /\ now >= nextReportAt
    /\ nextReportAt' = now + USAGE_REPORT_INTERVAL
    /\ ReportUsage
    /\ UNCHANGED <<edge, overlap, tunnels, nextClientIP, idsIssued, tokenCache, peers, reqs, scan, delivered,
                   billed, now, nextCleanupAt, nextBillAt, proc>>

RemoveAt(q, k) == [i \in 1..(Len(q) - 1) |-> IF i < k THEN q[i] ELSE q[i + 1]]

\* what a failed report does with its batch: `pendingUsage.push(...records)`
RequeueDropped(pending, batch) == pending
Requeue(pending, batch) == pending \o batch

\* the keeper's answer to a report arrives: 2xx, or a non-2xx / transport error
ReportDone(k, ok) ==
    /\ k \in 1..Len(inflight)
    /\ inflight' = RemoveAt(inflight, k)
    /\ IF ok
       THEN delivered' = delivered \o inflight[k] /\ UNCHANGED pendingUsage
       ELSE pendingUsage' = Requeue(pendingUsage, inflight[k]) /\ UNCHANGED delivered
    /\ UNCHANGED <<edge, overlap, tunnels, nextClientIP, idsIssued, tokenCache, peers, reqs, scan,
                   billed, now, nextCleanupAt, nextBillAt, nextReportAt, proc>>

(***************************************************************************)
(* Shutdown: the SIGTERM / SIGINT handler.  It calls billActiveTunnels,    *)
(* then reportUsage, which returns at once on an empty queue and otherwise *)
(* drains the queue and awaits the keeper; then process.exit(0).  While    *)
(* the report is awaited the event loop serves requests and timers.  One   *)
(* signal is delivered.                                                    *)
(***************************************************************************)
\* the handler from the signal to the await inside reportUsage, or to the exit
Shutdown ==
    /\ proc.pc = "running"
    /\ LET pending == pendingUsage \o PeriodicRecords(tunnels, now) IN
        /\ tunnels' = [i \in 1..Len(tunnels) |-> AdvanceCursor(tunnels[i], now)]
        /\ billed' = billed \o PeriodicEntries(tunnels, now)
        /\ pendingUsage' = <<>>
        /\ proc' = IF pending = <<>>
                   THEN [Exited EXCEPT !.at = now]
                   ELSE [pc |-> "reporting", records |-> pending, at |-> now]
    /\ UNCHANGED <<edge, overlap, nextClientIP, idsIssued, tokenCache, peers, reqs, scan, inflight, delivered,
                   now, nextCleanupAt, nextBillAt, nextReportAt>>

\* the keeper's answer to the handler's report arrives: a failed batch is put
\* back on the queue; then the process exits
ShutdownReported(ok) ==
    /\ proc.pc = "reporting"
    /\ IF ok
       THEN delivered' = delivered \o proc.records /\ UNCHANGED pendingUsage
       ELSE pendingUsage' = Requeue(pendingUsage, proc.records) /\ UNCHANGED delivered
    /\ proc' = [Exited EXCEPT !.at = proc.at]
    /\ UNCHANGED <<edge, overlap, tunnels, nextClientIP, idsIssued, tokenCache, peers, reqs, scan, inflight,
                   billed, now, nextCleanupAt, nextBillAt, nextReportAt>>

(***************************************************************************)
(* Time.  The clock moves on when no timer is due (of the timers the       *)
(* specification has) and no `wg` command is                               *)
(* running (a command takes well under a step of the clock); a call to the *)
(* keeper may take any time.  A response is with its client by the next   *)
(* step of the clock, which frees its slot.                                *)
(***************************************************************************)
ExecPending ==
    \/ scan.pc # "idle"
    \/ \E s \in DOMAIN reqs : reqs[s].pc \in {"addPeer", "removePeer"}

\* a timer among `timers` is due
TimerDue(timers) ==
    \/ "cleanup" \in timers /\ now >= nextCleanupAt
    \/ "bill" \in timers /\ now >= nextBillAt
    \/ "report" \in timers /\ now >= nextReportAt

Tick(step, horizon, timers) ==
    /\ now + step <= horizon
    /\ ~TimerDue(timers)
    /\ ~ExecPending
    /\ now' = now + step
    /\ reqs' = [s \in DOMAIN reqs |-> IF reqs[s].pc = "done" THEN IdleReq ELSE reqs[s]]
    /\ UNCHANGED <<edge, overlap, tunnels, nextClientIP, idsIssued, pendingUsage, tokenCache, peers, scan,
                   inflight, delivered, billed, nextCleanupAt, nextBillAt, nextReportAt, proc>>

(***************************************************************************)
(* The broker.                                                             *)
(***************************************************************************)
InitOf(slots) ==
    /\ now = 0
    /\ tunnels = <<>>
    /\ nextClientIP = FIRST_CLIENT_IP
    /\ idsIssued = 0
    /\ pendingUsage = <<>>
    /\ tokenCache = [t \in Tokens |-> NoEntry]
    /\ peers = {}
    /\ reqs = [s \in slots |-> IdleReq]
    /\ scan = IdleScan
    /\ inflight = <<>>
    /\ delivered = <<>>
    /\ billed = <<>>
    /\ nextCleanupAt = CLEANUP_INTERVAL
    /\ nextBillAt = BILLING_INTERVAL
    /\ nextReportAt = USAGE_REPORT_INTERVAL
    /\ proc = Running
    /\ edge = IdleEdge
    /\ overlap = IdleScan

(***************************************************************************)
(* The next-state relation, by component.  An environment names the inputs *)
(* the requests are drawn from and the answers the keeper and the kernel   *)
(* may give: tokens, durs (body.duration), cap (creates), ids (the :id     *)
(* parameter), answers (of the keeper's verify), oks (of a `wg` command).  *)
(***************************************************************************)
Http(env) ==
    \/ \E s \in DOMAIN reqs, token \in env.tokens, d \in env.durs : PostBegin(s, token, d, env.cap)
    \/ \E s \in DOMAIN reqs : \E data \in KeeperAnswers(reqs[s].token) \cap env.answers :
            PostVerified(s, data)
    \/ \E s \in DOMAIN reqs, ok \in env.oks : PostPeerDone(s, ok)
    \/ \E s \in DOMAIN reqs, token \in env.tokens, id \in env.ids : GetBegin(s, token, id)
    \/ \E s \in DOMAIN reqs : \E data \in KeeperAnswers(reqs[s].token) \cap env.answers :
            GetVerified(s, data)
    \/ \E s \in DOMAIN reqs, ok \in env.oks : GetPeerDone(s, ok)
    \/ \E s \in DOMAIN reqs, token \in env.tokens, id \in env.ids : DeleteBegin(s, token, id)
    \/ \E s \in DOMAIN reqs : \E data \in KeeperAnswers(reqs[s].token) \cap env.answers :
            DeleteVerified(s, data)
    \/ \E s \in DOMAIN reqs, ok \in env.oks : DeletePeerDone(s, ok)
    \/ \E s \in DOMAIN reqs, token \in env.tokens : ListBegin(s, token)
    \/ \E s \in DOMAIN reqs : \E data \in KeeperAnswers(reqs[s].token) \cap env.answers :
            ListVerified(s, data)

Lifecycle(env) ==
    \/ BillTick
    \/ CleanupTick
    \/ \E ok \in env.oks : CleanupPeerDone(ok)

Delivery ==
    \/ ReportTick
    \/ \E k \in 1..Len(inflight), ok \in BOOLEAN : ReportDone(k, ok)

AllAnswers == UNION {KeeperAnswers(t) : t \in Tokens}

\* The broker under the clock: one agent whose token the keeper accepts creates,
\* reads and closes tunnels while the accrual and lifecycle timers fire.
Env == [tokens |-> {"tokA"}, durs |-> DurationInputs, cap |-> MaxTunnels, ids |-> 1..MaxTunnels,
        answers |-> {ValidAuth("tokA", TRUE)}, oks |-> {TRUE}]

Init == InitOf({1})

Next == Http(Env) \/ Lifecycle(Env) \/ Tick(TimeStep, MaxTime, {"cleanup", "bill"})

Spec == Init /\ [][Next]_vars

\* Authorization and the kernel: two agents and a caller without a token, every
\* answer of the keeper, `wg` commands that may fail; one short tunnel, coarse clock.
EnvAuth == [tokens |-> Tokens \cup {NoToken}, durs |-> {MIN_DURATION}, cap |-> MaxTunnels - 1,
            ids |-> 1..MaxTunnels, answers |-> AllAnswers, oks |-> BOOLEAN]

NextAuth == Http(EnvAuth) \/ Lifecycle(EnvAuth) \/ Tick(3 * TimeStep, MaxTime, {"cleanup", "bill"})

SpecAuth == Init /\ [][NextAuth]_vars

(***************************************************************************)
(* Filling the subnet: one agent creates tunnels one after the other, more *)
(* than the subnet has addresses, and may close the first one.  All within *)
(* the first second, so no timer fires and no token leaves the cache.      *)
(***************************************************************************)
SubnetSize == LAST_CLIENT_IP - FIRST_CLIENT_IP + 1

EnvFill == [tokens |-> {"tokA"}, durs |-> {0}, cap |-> SubnetSize + 1, ids |-> {1},
            answers |-> {ValidAuth("tokA", TRUE)}, oks |-> {TRUE}]

NextFill ==
    \/ \E s \in DOMAIN reqs, token \in EnvFill.tokens, d \in EnvFill.durs :
            PostBegin(s, token, d, EnvFill.cap)
    \/ \E s \in DOMAIN reqs, data \in EnvFill.answers : PostVerified(s, data)
    \/ \E s \in DOMAIN reqs, ok \in EnvFill.oks : PostPeerDone(s, ok)
    \/ \E s \in DOMAIN reqs, token \in EnvFill.tokens, id \in EnvFill.ids : DeleteBegin(s, token, id)
    \/ \E s \in DOMAIN reqs, data \in EnvFill.answers : DeleteVerified(s, data)
    \/ \E s \in DOMAIN reqs, ok \in EnvFill.oks : DeletePeerDone(s, ok)

SpecFill == Init /\ [][NextFill]_vars

(***************************************************************************)
(* Delivery: the broker with the report timer and the keeper's answers to  *)
(* the reports.  The clock of the model stops at its horizon; the report   *)
(* timer goes on firing beyond it (reportUsage does not read the clock).   *)
(* Fairness: the event loop runs what is due (timers, returned commands),  *)
(* the clock moves on, every report is answered, and the keeper accepts a  *)
(* report again and again.                                                 *)
(***************************************************************************)
EnvDelivery == [tokens |-> {"tokA"}, durs |-> {MIN_DURATION, 65}, cap |-> MaxTunnels,
                ids |-> 1..MaxTunnels, answers |-> {ValidAuth("tokA", TRUE)}, oks |-> {TRUE}]

DeliveryTimers == {"cleanup", "bill", "report"}

\* the report interval timer fires at a time past the horizon of the clock
ReportTickBeyond(step, horizon) ==
    /\ now + step > horizon
    /\ ~TimerDue(DeliveryTimers)
    /\ ReportUsage
    /\ UNCHANGED <<edge, overlap, tunnels, nextClientIP, idsIssued, tokenCache, peers, reqs, scan, delivered,
                   billed, now, nextCleanupAt, nextBillAt, nextReportAt, proc>>

ReportAnswered == \E k \in 1..Len(inflight), ok \in BOOLEAN : ReportDone(k, ok)
ReportAccepted == \E k \in 1..Len(inflight) : ReportDone(k, TRUE)
CommandReturned(env) ==
    \/ \E s \in DOMAIN reqs, ok \in env.oks : PostPeerDone(s, ok)
    \/ \E s \in DOMAIN reqs, ok \in env.oks : GetPeerDone(s, ok)
    \/ \E s \in DOMAIN reqs, ok \in env.oks : DeletePeerDone(s, ok)
    \/ \E ok \in env.oks : CleanupPeerDone(ok)

NextDelivery ==
    \/ Http(EnvDelivery)
    \/ Lifecycle(EnvDelivery)
    \/ Delivery
    \/ ReportTickBeyond(3 * TimeStep, MaxTime)
    \/ Tick(3 * TimeStep, MaxTime, DeliveryTimers)

SpecDelivery ==
    /\ Init
    /\ [][NextDelivery]_vars
    /\ WF_vars(Tick(3 * TimeStep, MaxTime, DeliveryTimers))
    /\ WF_vars(BillTick)
    /\ WF_vars(CleanupTick)
    /\ WF_vars(CommandReturned(EnvDelivery))
    /\ WF_vars(ReportTick)
    /\ WF_vars(ReportTickBeyond(3 * TimeStep, MaxTime))
    /\ WF_vars(ReportAnswered)
    /\ SF_vars(ReportAccepted)

(***************************************************************************)
(* Concurrent handlers: two requests of one agent in progress at a time    *)
(* (one may be suspended at the keeper or at a `wg` command while the      *)
(* other runs), `wg` commands that may fail, one short tunnel.             *)
(***************************************************************************)
EnvRace == [tokens |-> {"tokA"}, durs |-> {MIN_DURATION}, cap |-> MaxTunnels - 1,
            ids |-> 1..(MaxTunnels - 1), answers |-> {ValidAuth("tokA", TRUE)}, oks |-> BOOLEAN]

InitRace == InitOf({1, 2})

NextRace == Http(EnvRace) \/ Lifecycle(EnvRace) \/ Tick(3 * TimeStep, MaxTime, {"cleanup", "bill"})

SpecRace == InitRace /\ [][NextRace]_vars

(***************************************************************************)
(* Failing kernel: one agent creates, reads and closes two short tunnels   *)
(* while any `wg` command may fail.                                        *)
(***************************************************************************)
EnvKernel == [tokens |-> {"tokA"}, durs |-> {MIN_DURATION}, cap |-> MaxTunnels,
              ids |-> 1..MaxTunnels, answers |-> {ValidAuth("tokA", TRUE)}, oks |-> BOOLEAN]

NextKernel == Http(EnvKernel) \/ Lifecycle(EnvKernel) \/ Tick(3 * TimeStep, MaxTime, {"cleanup", "bill"})

SpecKernel == Init /\ [][NextKernel]_vars

(***************************************************************************)
(* Shutdown: the broker with all three timers, the keeper's answers to the *)
(* reports, and a terminate signal at any moment.  Nothing runs once the   *)
(* process has exited.                                                     *)
(***************************************************************************)
EnvShutdown == [tokens |-> {"tokA"}, durs |-> {MIN_DURATION}, cap |-> MaxTunnels,
                ids |-> 1..MaxTunnels, answers |-> {ValidAuth("tokA", TRUE)}, oks |-> {TRUE}]

NextShutdown ==
    \/ proc.pc # "exited" /\ Http(EnvShutdown)
    \/ proc.pc # "exited" /\ Lifecycle(EnvShutdown)
    \/ proc.pc # "exited" /\ Delivery
    \/ proc.pc # "exited" /\ Tick(3 * TimeStep, MaxTime, DeliveryTimers)
    \/ Shutdown
    \/ \E ok \in BOOLEAN : ShutdownReported(ok)

SpecShutdown == Init /\ [][NextShutdown]_vars

(***************************************************************************)
(* Properties.                                                             *)
(***************************************************************************)
Abs(x) == IF x >= 0 THEN x ELSE -x
Terminal(t) == t.status \in {"expired", "closed"}
PeerKeys == {p.key : p \in peers}

\* the seconds of all usage records ever pushed for a tunnel
RECURSIVE SecondsFor(_, _)
SecondsFor(h, id) ==
    IF h = <<>> THEN 0
    ELSE (IF Head(h).tunnel_id = id THEN Head(h).duration_seconds ELSE 0) + SecondsFor(Tail(h), id)

\* a handler produces its response in this step
Responds(s) == reqs'[s].pc = "done" /\ reqs'[s] # reqs[s]

\* C1: for every tunnel in a terminal status, the seconds of all usage records
\* ever enqueued for it equal its final duration (terminal time minus
\* created_at; expires_at holds the terminal time) within one second.
C1_BilledEqualsDuration ==
    \A i \in 1..Len(tunnels) :
        Terminal(tunnels[i]) =>
            Abs(SecondsFor(billed, tunnels[i].id) - (tunnels[i].expires_at - tunnels[i].created_at)) <= 1

\* C2: in every state and for every tunnel record,
\* created_at <= last_billed_at <= min(now, expires_at).
C2_CursorWithinLifetime ==
    \A i \in 1..Len(tunnels) :
        /\ tunnels[i].created_at <= tunnels[i].last_billed_at
        /\ tunnels[i].last_billed_at <= Min(now, tunnels[i].expires_at)

\* C3: any two distinct tunnels that are both active have different client_ip values.
C3_DistinctClientIPs ==
    \A i, j \in 1..Len(tunnels) :
        (i # j /\ tunnels[i].status = "active" /\ tunnels[j].status = "active")
            => tunnels[i].client_ip # tunnels[j].client_ip

\* C4: a status is active, expired or closed, and no step changes the status of
\* a tunnel that is expired or closed.
C4_StatusMonotone ==
    [][/\ Len(tunnels') >= Len(tunnels)
       /\ \A i \in 1..Len(tunnels) :
            /\ tunnels'[i].id = tunnels[i].id
            /\ tunnels'[i].status \in {"active", "expired", "closed"}
            /\ Terminal(tunnels[i]) => tunnels'[i].status = tunnels[i].status]_vars

\* an expired tunnel and a closed one, the closed one past its close time, and a
\* DELETE that was just refused because its tunnel is terminal
C4_Witness ==
    /\ \E i \in 1..Len(tunnels) : tunnels[i].status = "expired"
    /\ \E i \in 1..Len(tunnels) : tunnels[i].status = "closed" /\ tunnels[i].expires_at < now
    /\ \E s \in DOMAIN reqs : reqs[s].pc = "done" /\ reqs[s].kind = "DELETE" /\ reqs[s].code = 400

\* C5: each active tunnel of the registry has exactly one kernel peer, its
\* client_public_key with allowed IP client_ip, and no expired or closed
\* tunnel has a kernel peer.
C5_PeerIffActive ==
    \A i \in 1..Len(tunnels) :
        IF tunnels[i].status = "active"
        THEN {p \in peers : p.key = tunnels[i].client_public_key}
                = {[key |-> tunnels[i].client_public_key, ip |-> tunnels[i].client_ip]}
        ELSE tunnels[i].client_public_key \notin PeerKeys

\* C6: the spans of time paid for by the usage records of one tunnel (each
\* record pays for the duration_seconds that end at its `upto`) never overlap.
C6_NoDoubleBilling ==
    \A k, l \in 1..Len(billed) :
        (k < l /\ billed[k].tunnel_id = billed[l].tunnel_id)
            => \/ billed[k].upto <= billed[l].upto - billed[l].duration_seconds
               \/ billed[l].upto <= billed[k].upto - billed[k].duration_seconds

\* a tunnel billed by periodic accrual and then by its expiry, and another (or
\* the same) billed by periodic accrual and then by its close
C6_Witness ==
    /\ \E k, l \in 1..Len(billed) :
            /\ k < l /\ billed[k].tunnel_id = billed[l].tunnel_id
            /\ billed[k].path = "periodic" /\ billed[l].path = "expiry"
    /\ \E k, l \in 1..Len(billed) :
            /\ k < l /\ billed[k].tunnel_id = billed[l].tunnel_id
            /\ billed[k].path = "periodic" /\ billed[l].path = "close"

\* C7: while the lifecycle scan is in the middle of expiring a tunnel (status
\* set, removePeer not yet returned), no GET or DELETE handler observes that
\* tunnel as no longer active with its kernel peer still installed.
C7_ScanExpiryAtomic ==
    [][\A s \in DOMAIN reqs :
          (/\ scan.pc = "removePeer"
           /\ Responds(s)
           /\ reqs'[s].id = tunnels[scan.pos].id
           /\ \/ reqs'[s].kind = "GET" /\ reqs'[s].code = 200 /\ reqs'[s].body.status = "expired"
              \/ reqs'[s].kind = "DELETE" /\ reqs'[s].code = 400)
          => tunnels[scan.pos].client_public_key \notin {p.key : p \in peers'}]_vars

\* every address .2 to .254 is held by an active tunnel
SubnetFull ==
    {tunnels[i].client_ip : i \in {j \in 1..Len(tunnels) : tunnels[j].status = "active"}}
        = FIRST_CLIENT_IP..LAST_CLIENT_IP

\* C9: when every address of the subnet is held by an active tunnel, a POST
\* that passes verification and affordability is answered 503 and adds no
\* record and no peer and changes no tunnel.
C9_FullSubnetRefuses ==
    [][\A s \in DOMAIN reqs :
          (/\ SubnetFull
           /\ Responds(s)
           /\ reqs'[s].kind = "POST"
           /\ reqs'[s].auth.valid /\ reqs'[s].auth.can_afford)
          => /\ reqs'[s].code = 503
             /\ tunnels' = tunnels
             /\ peers' = peers]_vars

\* C10: a handler whose verification yields valid=false answers 401, and its
\* step changes no tunnel record, no usage record, no peer, nothing of the
\* allocator and nothing of the verification cache.
C10_InvalidChangesNothing ==
    [][\A s \in DOMAIN reqs :
          (Responds(s) /\ ~reqs'[s].auth.valid)
          => /\ reqs'[s].code = 401
             /\ UNCHANGED <<tunnels, nextClientIP, idsIssued, pendingUsage, billed, peers, tokenCache>>]_vars

\* the keeper has just refused the token of a DELETE on an active tunnel, while
\* another token is in the cache
C10_Witness ==
    \E s \in DOMAIN reqs :
        /\ reqs[s].pc = "done" /\ reqs[s].kind = "DELETE" /\ reqs[s].code = 401
        /\ reqs[s].token # NoToken
        /\ TunnelIndex(reqs[s].id) # 0
        /\ tunnels[TunnelIndex(reqs[s].id)].status = "active"
        /\ \E t \in Tokens : tokenCache[t] # NoEntry

\* the usage records ever pushed, in the order of their push
Enqueued == [k \in 1..Len(billed) |-> billed[k].record]
Occurrences(q, r) == Cardinality({k \in 1..Len(q) : q[k] = r})
SameRecords(q1, q2) ==
    /\ Len(q1) = Len(q2)
    /\ \A k \in 1..Len(q1) : Occurrences(q1, q1[k]) = Occurrences(q2, q1[k])
\* the position of a record in the order of the pushes
EnqueuedAt(r) == CHOOSE k \in 1..Len(billed) : billed[k].record = r

Steps(s) == reqs'[s] # reqs[s] /\ reqs'[s].pc # "idle"

\* C11: a POST whose verification is valid with can_afford = false is answered
\* 402 in the step that learns it, and that step inserts no tunnel record,
\* consumes no client IP and no id, installs no peer and pushes no usage record.
C11_UnaffordableNoEffect ==
    [][\A s \in DOMAIN reqs :
          (/\ Steps(s)
           /\ reqs'[s].kind = "POST"
           /\ reqs'[s].auth.valid
           /\ reqs'[s].auth.can_afford = FALSE)
          => /\ reqs'[s].pc = "done"
             /\ reqs'[s].code = 402
             /\ UNCHANGED <<tunnels, nextClientIP, idsIssued, peers, pendingUsage, billed>>]_vars

\* a create refused with 402 from the cache: the verification that said
\* can_afford = false is cached and was served to this POST
C11_Witness ==
    \E s \in DOMAIN reqs :
        /\ reqs[s].pc = "done" /\ reqs[s].kind = "POST" /\ reqs[s].code = 402
        /\ tokenCache[reqs[s].token] # NoEntry
        /\ tokenCache[reqs[s].token].expires > now
        /\ tokenCache[reqs[s].token].expires < now + TOKEN_CACHE_TTL
        /\ tunnels = <<>> /\ peers = {} /\ nextClientIP = FIRST_CLIENT_IP

\* C12: a GET or DELETE by a verified agent that is not the tunnel's owner is
\* answered 403 in the step that learns the agent, and changes no tunnel
\* record, no usage record and no peer.
C12_ForeignAgentRefused ==
    [][\A s \in DOMAIN reqs :
          (/\ Steps(s)
           /\ reqs'[s].kind \in {"GET", "DELETE"}
           /\ reqs'[s].auth.valid
           /\ TunnelIndex(reqs'[s].id) # 0
           /\ tunnels[TunnelIndex(reqs'[s].id)].agent_id # reqs'[s].auth.agent_id)
          => /\ reqs'[s].pc = "done"
             /\ reqs'[s].code = 403
             /\ UNCHANGED <<tunnels, pendingUsage, billed, peers>>]_vars

\* another agent's GET was refused 403 on a tunnel that is active and past its
\* expires_at, its peer still installed
C12_Witness ==
    \E s \in DOMAIN reqs :
        /\ reqs[s].pc = "done" /\ reqs[s].kind = "GET" /\ reqs[s].code = 403
        /\ TunnelIndex(reqs[s].id) # 0
        /\ LET t == tunnels[TunnelIndex(reqs[s].id)] IN
            /\ t.status = "active"
            /\ t.expires_at < now
            /\ t.client_public_key \in PeerKeys

\* C13: the owner's DELETE of an active tunnel closes it and, when its
\* removePeer has returned, answers 200; a DELETE that finds the tunnel expired
\* or closed (every later DELETE, since a closed tunnel stays closed) answers
\* 400, pushes no usage record and changes no record.
C13_DeleteNotIdempotent ==
    [][\A s \in DOMAIN reqs :
          (/\ Steps(s)
           /\ reqs'[s].kind = "DELETE"
           /\ reqs'[s].auth.valid
           /\ TunnelIndex(reqs'[s].id) # 0
           /\ tunnels[TunnelIndex(reqs'[s].id)].agent_id = reqs'[s].auth.agent_id)
          => LET i == TunnelIndex(reqs'[s].id) IN
             IF reqs[s].pc = "removePeer"
             THEN /\ reqs'[s].pc = "done" /\ reqs'[s].code = 200
                  /\ tunnels[i].status = "closed" /\ tunnels' = tunnels
                  /\ UNCHANGED <<pendingUsage, billed>>
             ELSE IF tunnels[i].status = "active"
             THEN /\ reqs'[s].pc = "removePeer"
                  /\ tunnels'[i].status = "closed"
             ELSE /\ reqs'[s].pc = "done" /\ reqs'[s].code = 400
                  /\ UNCHANGED <<tunnels, pendingUsage, billed>>]_vars

\* two DELETEs of one tunnel have been answered, the first with 200, a later
\* one with 400
C13_Witness ==
    \E s1, s2 \in DOMAIN reqs :
        /\ reqs[s1].pc = "done" /\ reqs[s1].kind = "DELETE" /\ reqs[s1].code = 200
        /\ reqs[s2].pc = "done" /\ reqs[s2].kind = "DELETE" /\ reqs[s2].code = 400
        /\ reqs[s1].id = reqs[s2].id
        /\ tunnels[TunnelIndex(reqs[s1].id)].status = "closed"

\* a GET by the creating agent responds while the 201 of the create is with its client
ReadsOwnWrite(s1, s2) ==
    /\ s1 # s2
    /\ reqs[s1].pc = "done" /\ reqs[s1].kind = "POST" /\ reqs[s1].code = 201
    /\ Responds(s2)
    /\ reqs'[s2].kind = "GET"
    /\ reqs'[s2].auth.valid
    /\ reqs'[s2].auth.agent_id = reqs[s1].auth.agent_id
    /\ reqs'[s2].id = reqs[s1].body.tunnel_id

\* the tunnel of handler s is in the registry, active and not past its expires_at
StillActive(s) ==
    /\ TunnelIndex(reqs'[s].id) # 0
    /\ tunnels[TunnelIndex(reqs'[s].id)].status = "active"
    /\ tunnels[TunnelIndex(reqs'[s].id)].expires_at >= now

\* every GET of a stored tunnel by its agent is answered 200
NeverNotFound ==
    \A s \in DOMAIN reqs :
        (/\ Responds(s)
         /\ reqs'[s].kind = "GET"
         /\ reqs'[s].auth.valid
         /\ \E i \in 1..Len(tunnels) :
                tunnels[i].id = reqs'[s].id /\ tunnels[i].agent_id = reqs'[s].auth.agent_id)
        => reqs'[s].code = 200

\* C14 as stated: after a 201, a GET of the returned tunnel_id by the same
\* agent is never 404, and issued at once (the tunnel neither closed nor past
\* its expires_at) it reports status active and the tunnel_id, region,
\* expires_at and client_ip of the create response.
C14_ReadYourWriteWithClientIP ==
    [][/\ NeverNotFound
       /\ \A s1, s2 \in DOMAIN reqs :
            (ReadsOwnWrite(s1, s2) /\ StillActive(s2))
            => /\ reqs'[s2].code = 200
               /\ reqs'[s2].body.status = "active"
               /\ reqs'[s2].body.tunnel_id = reqs[s1].body.tunnel_id
               /\ reqs'[s2].body.region = reqs[s1].body.region
               /\ reqs'[s2].body.expires_at = reqs[s1].body.expires_at
               /\ "client_ip" \in DOMAIN reqs'[s2].body
               /\ reqs'[s2].body.client_ip = reqs[s1].body.client_ip]_vars

\* C14 amended: the same, for the fields a GET response has: tunnel_id,
\* region, expires_at and status (a GET response carries no client_ip).
C14_ReadYourWrite ==
    [][/\ NeverNotFound
       /\ \A s1, s2 \in DOMAIN reqs :
            (ReadsOwnWrite(s1, s2) /\ StillActive(s2))
            => /\ reqs'[s2].code = 200
               /\ reqs'[s2].body.status = "active"
               /\ reqs'[s2].body.tunnel_id = reqs[s1].body.tunnel_id
               /\ reqs'[s2].body.region = reqs[s1].body.region
               /\ reqs'[s2].body.expires_at = reqs[s1].body.expires_at
               /\ "client_ip" \notin DOMAIN reqs'[s2].body]_vars

\* the 201 of a create and the 200 of a GET of its tunnel_id, status active,
\* are both with the client
C14_Witness ==
    \E s1, s2 \in DOMAIN reqs :
        /\ reqs[s1].pc = "done" /\ reqs[s1].kind = "POST" /\ reqs[s1].code = 201
        /\ reqs[s2].pc = "done" /\ reqs[s2].kind = "GET" /\ reqs[s2].code = 200
        /\ reqs[s2].id = reqs[s1].body.tunnel_id
        /\ reqs[s2].body.status = "active"
        /\ reqs[s2].body.expires_at = reqs[s1].body.expires_at

\* C15: the cache holds only valid verifications, each expiring
\* TOKEN_CACHE_TTL after the keeper's answer that created it; an entry is
\* written only by a valid answer of the keeper (a hit does not renew it);
\* and a handler is answered from the cache only while its token's entry has
\* not expired.  So a token is accepted only less than TOKEN_CACHE_TTL after
\* the keeper last verified it.
C15_CacheValidAndBounded ==
    /\ [](\A t \in Tokens :
            tokenCache[t] # NoEntry =>
                /\ tokenCache[t].result.valid
                /\ tokenCache[t].expires <= now + TOKEN_CACHE_TTL)
    /\ [][/\ \A t \in Tokens :
                tokenCache'[t] # tokenCache[t] =>
                    \E s \in DOMAIN reqs :
                        /\ reqs[s].pc = "verify" /\ reqs[s].token = t
                        /\ reqs'[s].auth.valid
                        /\ tokenCache'[t].result = reqs'[s].auth
                        /\ tokenCache'[t].expires = now + TOKEN_CACHE_TTL
          /\ \A s \in DOMAIN reqs :
                (/\ Steps(s)
                 /\ reqs[s].pc \in {"idle", "done"}
                 /\ reqs'[s].pc # "verify"
                 /\ reqs'[s].token # NoToken)
                => /\ tokenCache[reqs'[s].token] # NoEntry
                   /\ now < tokenCache[reqs'[s].token].expires
                   /\ reqs'[s].auth = tokenCache[reqs'[s].token].result
                   /\ tokenCache' = tokenCache]_vars

\* a token whose cached verification has run out was sent to the keeper, which
\* refused it: the handler answered 401 with the old entry still in the Map
C15_Witness ==
    \E s \in DOMAIN reqs :
        /\ reqs[s].pc = "done" /\ reqs[s].code = 401
        /\ reqs[s].token # NoToken
        /\ tokenCache[reqs[s].token] # NoEntry
        /\ tokenCache[reqs[s].token].expires = now

\* C16: the step that handles the terminate signal leaves every active tunnel
\* active with all its time up to now billed (cursor at now, the seconds of
\* its usage records adding up to now - created_at) and the queue drained;
\* and the step that ends the handler's report is the exit.
C16_ShutdownClosesOut ==
    [][/\ (proc.pc = "running" /\ proc'.pc # "running") =>
            /\ \A i \in 1..Len(tunnels) :
                    tunnels[i].status = "active" =>
                        /\ tunnels'[i].status = "active"
                        /\ tunnels'[i].last_billed_at = now
                        /\ SecondsFor(billed', tunnels[i].id) = now - tunnels[i].created_at
            /\ pendingUsage' = <<>>
       /\ (proc.pc = "reporting" /\ proc' # proc) => proc'.pc = "exited"]_vars

\* C17: once the terminate signal has been handled, no step inserts a tunnel
\* record or installs a peer.
C17_NoCreateAfterSignal ==
    [][proc.pc # "running" =>
            /\ Len(tunnels') = Len(tunnels)
            /\ {p.key : p \in peers'} \subseteq PeerKeys]_vars

\* C18: a step of a DELETE handler removes from the kernel only the peer of
\* its own tunnel, and only when the record was set to closed by an earlier
\* step; and a DELETE answers 200 only for a record that is already closed.
C18_ClosedBeforePeerRemoved ==
    [][\A s \in DOMAIN reqs :
          (Steps(s) /\ reqs'[s].kind = "DELETE")
          => /\ \A p \in peers \ peers' :
                    /\ reqs[s].pc = "removePeer"
                    /\ \E i \in 1..Len(tunnels) :
                            /\ tunnels[i].id = reqs[s].id
                            /\ tunnels[i].client_public_key = p.key
                            /\ tunnels[i].status = "closed"
             /\ (reqs'[s].pc = "done" /\ reqs'[s].code = 200)
                    => /\ reqs[s].pc = "removePeer"
                       /\ tunnels[TunnelIndex(reqs[s].id)].status = "closed"]_vars

\* a DELETE has closed its tunnel and awaits removePeer: the record is closed
\* and the kernel still has the peer
C18_Witness ==
    \E s \in DOMAIN reqs :
        /\ reqs[s].kind = "DELETE" /\ reqs[s].pc = "removePeer"
        /\ LET t == tunnels[TunnelIndex(reqs[s].id)] IN
            /\ t.status = "closed"
            /\ [key |-> t.client_public_key, ip |-> t.client_ip] \in peers

\* q begins with p
IsPrefix(p, q) == Len(p) <= Len(q) /\ \A k \in 1..Len(p) : q[k] = p[k]

\* C19: when addPeer returns to a create, with or without the peer installed,
\* the record is inserted as active and the answer is 201; when removePeer
\* returns to a GET, a DELETE or the scan, with or without the peer removed,
\* the record keeps its terminal status and every usage record pushed stays
\* pushed.
C19_NoRollback ==
    [][/\ \A s \in DOMAIN reqs :
            (Steps(s) /\ reqs[s].kind = "POST" /\ reqs[s].pc = "addPeer")
            => /\ reqs'[s].pc = "done" /\ reqs'[s].code = 201
               /\ reqs[s].tunnel.status = "active"
               /\ tunnels' = Append(tunnels, reqs[s].tunnel)
       /\ \A s \in DOMAIN reqs :
            (Steps(s) /\ reqs[s].pc = "removePeer")
            => /\ reqs'[s].pc = "done" /\ reqs'[s].code = 200
               /\ Terminal(tunnels[TunnelIndex(reqs[s].id)])
               /\ tunnels' = tunnels
               /\ UNCHANGED <<pendingUsage, billed>>
       /\ (scan.pc = "removePeer" /\ scan' # scan)
            => /\ tunnels[scan.pos].status = "expired"
               /\ tunnels'[scan.pos] = tunnels[scan.pos]
               /\ IsPrefix(pendingUsage, pendingUsage')
               /\ IsPrefix(billed, billed')]_vars

\* no command is running; one tunnel is active with no peer in the kernel (its
\* addPeer failed), another is closed or expired and billed for it with its
\* peer still in the kernel (its removePeer failed)
C19_Witness ==
    /\ ~ExecPending
    /\ \E i, j \in 1..Len(tunnels) :
        /\ tunnels[i].status = "active"
        /\ tunnels[i].client_public_key \notin PeerKeys
        /\ Terminal(tunnels[j])
        /\ tunnels[j].client_public_key \in PeerKeys
        /\ \E k \in 1..Len(billed) :
                billed[k].tunnel_id = tunnels[j].id /\ billed[k].path \in {"close", "expiry"}

\* C20: no step removes a record or moves it; a record that is expired or
\* closed is never written again; the step that closes a record writes only
\* its status and its expires_at (the close time), and the step that expires
\* one writes only its status.
C20_TerminalRecordsFrozen ==
    [][/\ Len(tunnels') >= Len(tunnels)
       /\ \A i \in 1..Len(tunnels) :
            /\ tunnels'[i].id = tunnels[i].id
            /\ Terminal(tunnels[i]) => tunnels'[i] = tunnels[i]
            /\ (tunnels[i].status = "active" /\ tunnels'[i].status = "closed")
                    => tunnels'[i] = [tunnels[i] EXCEPT !.status = "closed", !.expires_at = now]
            /\ (tunnels[i].status = "active" /\ tunnels'[i].status = "expired")
                    => tunnels'[i] = [tunnels[i] EXCEPT !.status = "expired"]]_vars

\* an accrual pass has run over a closed tunnel and an expired one, each with
\* a minute or more between its cursor and that pass
C20_Witness ==
    /\ nextBillAt > BILLING_INTERVAL
    /\ \E i, j \in 1..Len(tunnels) :
        /\ tunnels[i].status = "closed"
        /\ tunnels[i].expires_at < nextBillAt - BILLING_INTERVAL
        /\ tunnels[i].last_billed_at + BILLING_MINUTE <= nextBillAt - BILLING_INTERVAL
        /\ tunnels[j].status = "expired"
        /\ tunnels[j].expires_at + CLEANUP_INTERVAL < nextBillAt - BILLING_INTERVAL
        /\ tunnels[j].last_billed_at + BILLING_MINUTE <= nextBillAt - BILLING_INTERVAL

(***************************************************************************)
(* The duration clamp of the create handler on its own: the body of a      *)
(* create is parsed, then the clamp and the expiry are computed from what  *)
(* body.duration holds, at any second of the clock.                        *)
(***************************************************************************)
\* the body.duration values a create is probed with: numbers around both ends
\* of the range and around 0, an absent field, a string that is not a numeral
DurationProbes ==
    {Number(n) : n \in ((0 - MIN_DURATION)..(2 * MIN_DURATION + 5))
                        \cup ((MAX_DURATION - 5)..(MAX_DURATION + 5))}
        \cup {Missing, Text}

\* `body = await c.req.json()`
BodyParsed(s, v) ==
    /\ reqs[s].pc = "idle"
    /\ reqs' = [reqs EXCEPT ![s] = [Request("POST", "tokA", 0, v) EXCEPT !.pc = "parsed"]]
    /\ UNCHANGED <<registry, tokenCache>>
    /\ UNCHANGED rest

\* `const duration = ...; const now = new Date(); const expiresAt = ...`
DurationComputed(s) ==
    /\ reqs[s].pc = "parsed"
    /\ LET d == EffectiveDuration(reqs[s].duration)
       IN reqs' = [reqs EXCEPT ![s] = [reqs[s] EXCEPT
                      !.pc = "done",
                      !.body = [duration |-> d, created_at |-> now, expires_at |-> ExpiresAt(now, d)]]]
    /\ UNCHANGED <<registry, tokenCache>>
    /\ UNCHANGED rest

NextDuration ==
    \/ \E s \in DOMAIN reqs, v \in DurationProbes : BodyParsed(s, v)
    \/ \E s \in DOMAIN reqs : DurationComputed(s)
    \/ Tick(TimeStep, MaxTime, {})

SpecDuration == Init /\ [][NextDuration]_vars

\* C21: the effective duration of a create is an integer in [30, 3600]: a
\* number below 30 (0 and negatives included) gives 30, one above 3600 gives
\* 3600, one in the range is kept, a missing or non-numeric value gives 300;
\* and expires_at is created_at plus that duration.
C21_DurationClamped ==
    \A s \in DOMAIN reqs :
        (reqs[s].kind = "POST" /\ reqs[s].pc = "done") =>
            LET v == reqs[s].duration
                d == reqs[s].body.duration
                e == reqs[s].body.expires_at
            IN /\ d.kind = "number"
               /\ d.n \in MIN_DURATION..MAX_DURATION
               /\ (v.kind = "number" /\ v.n < MIN_DURATION) => d.n = MIN_DURATION
               /\ (v.kind = "number" /\ v.n > MAX_DURATION) => d.n = MAX_DURATION
               /\ (v.kind = "number" /\ v.n \in MIN_DURATION..MAX_DURATION) => d.n = v.n
               /\ v.kind \in {"missing", "text"} => d.n = DEFAULT_DURATION
               /\ e.kind = "number"
               /\ e.n = reqs[s].body.created_at + d.n

\* C22: every step that takes a tunnel from active to expired, whether the
\* scan or a GET makes it, enqueues the terminal usage record for
\* expires_at - last_billed_at, so that the records of a tunnel left to
\* expire sum to exactly its duration.
C22_ExpiryEnqueuesTerminal ==
    [][\A i \in 1..Len(tunnels) :
          (tunnels[i].status = "active" /\ tunnels'[i].status = "expired") =>
              LET due == tunnels[i].expires_at - tunnels[i].last_billed_at
                  last == pendingUsage'[Len(pendingUsage')]
              IN /\ due > 0 => /\ Len(pendingUsage') = Len(pendingUsage) + 1
                               /\ last.tunnel_id = tunnels[i].id
                               /\ last.duration_seconds = due
                 /\ SecondsFor(billed', tunnels[i].id)
                        = tunnels[i].expires_at - tunnels[i].created_at]_vars

\* C23: a GET by the owner that finds the tunnel active with expires_at
\* earlier than now sets it to expired and issues the peer removal before it
\* responds; no GET response reports status active for a tunnel whose
\* expires_at had passed when the handler read the status.
C23_GetExpiresBeforeResponding ==
    [][\A s \in DOMAIN reqs :
          LET i == TunnelIndex(reqs'[s].id) IN
          (Steps(s) /\ reqs'[s].kind = "GET") =>
              /\ (/\ reqs[s].pc # "removePeer"
                  /\ reqs'[s].pc # "verify"
                  /\ reqs'[s].auth.valid
                  /\ i # 0
                  /\ tunnels[i].agent_id = reqs'[s].auth.agent_id
                  /\ tunnels[i].status = "active"
                  /\ tunnels[i].expires_at < now)
                 => /\ tunnels'[i].status = "expired"
                    /\ reqs'[s].pc = "removePeer"
              /\ (reqs'[s].pc = "done" /\ reqs'[s].code = 200 /\ reqs'[s].body.status = "active")
                 => tunnels[i].expires_at >= now
              /\ (reqs'[s].pc = "done" /\ reqs[s].pc = "removePeer")
                 => /\ reqs'[s].body.status = "expired"
                    /\ tunnels[i].status = "expired"]_vars

\* a GET has answered "expired" for a tunnel that no scan had expired
C23_Witness ==
    \E s \in DOMAIN reqs :
        /\ reqs[s].kind = "GET" /\ reqs[s].pc = "done" /\ reqs[s].code = 200
        /\ reqs[s].body.status = "expired"
        /\ \A k \in 1..Len(billed) : billed[k].tunnel_id # reqs[s].id

\* Two agents side by side: both tokens are accepted by the keeper, each agent
\* creates, reads, closes and lists while the timers fire.
EnvAgents == [tokens |-> Tokens, durs |-> {MIN_DURATION}, cap |-> MaxTunnels, ids |-> {1},
              answers |-> {ValidAuth(t, TRUE) : t \in Tokens}, oks |-> {TRUE}]

NextAgents == Http(EnvAgents) \/ Lifecycle(EnvAgents) \/ Tick(3 * TimeStep, MaxTime, {"cleanup", "bill"})

SpecAgents == Init /\ [][NextAgents]_vars

BACKEND_LIST == <<"eu-frankfurt", "ap-sydney", "us-west", "us-east">>
Unavailable == 0
NOT_FOUND == 404
\* the statuses the brokers' GET and DELETE handlers answer with, and a 500
BrokerStatuses == {200, 400, 401, 403, NOT_FOUND, 500}

broker == <<now, tunnels, nextClientIP, idsIssued, pendingUsage, tokenCache, peers,
            reqs, scan, inflight, delivered, billed,
            nextCleanupAt, nextBillAt, nextReportAt, proc, overlap>>

\* `if (response.status !== 404) return ...` on a fetch that did not throw
FoundOnlyOk(st) == st = 200
Found(st) == st # Unavailable /\ st # NOT_FOUND

\* the request arrives and the first broker is asked
EdgeBegin(method) ==
    /\ edge.pc \in {"idle", "done"}
    /\ edge' = [IdleEdge EXCEPT !.pc = "fetch", !.method = method, !.next = 1, !.contacted = <<1>>]
    /\ UNCHANGED broker

\* the awaited fetch settles: its response is returned, or the next broker is
\* asked, or after the last broker the router answers 404 itself
EdgeAnswered(st) ==
    /\ edge.pc = "fetch"
    /\ LET answers == Append(edge.answers, st) IN
       IF Found(st)
       THEN edge' = [edge EXCEPT !.pc = "done", !.answers = answers, !.status = st]
       ELSE IF edge.next < Len(BACKEND_LIST)
       THEN edge' = [edge EXCEPT !.answers = answers, !.next = edge.next + 1,
                                 !.contacted = Append(edge.contacted, edge.next + 1)]
       ELSE edge' = [edge EXCEPT !.pc = "done", !.answers = answers, !.status = NOT_FOUND]
    /\ UNCHANGED broker

NextEdge ==
    \/ \E method \in {"GET", "DELETE"} : EdgeBegin(method)
    \/ \E st \in BrokerStatuses \cup {Unavailable} : EdgeAnswered(st)

SpecEdge == Init /\ [][NextEdge]_vars

\* the brokers whose fetch gave a response other than 404
Answering == {k \in 1..Len(edge.answers) : edge.answers[k] \notin {Unavailable, NOT_FOUND}}

\* C25: on GET and DELETE of /v1/tunnel/{id} the edge asks the regional
\* brokers one after another and returns the first response that is not 404;
\* no broker after that one is contacted, so a DELETE through the edge
\* closes a tunnel in at most one region.
C25_EdgeStopsAtFirstAnswer ==
    /\ edge.contacted = [k \in 1..Len(edge.contacted) |-> k]
    /\ Len(edge.contacted) <= Len(BACKEND_LIST)
    /\ Len(edge.answers) <= Len(edge.contacted)
    /\ edge.pc = "fetch" => /\ Len(edge.contacted) = Len(edge.answers) + 1
                            /\ Answering = {}
    /\ (edge.pc = "done" /\ Answering # {}) =>
          LET first == CHOOSE k \in Answering : \A j \in Answering : k <= j
          IN /\ edge.status = edge.answers[first]
             /\ Len(edge.contacted) = first
    /\ (edge.pc = "done" /\ Answering = {}) =>
          /\ edge.status = NOT_FOUND
          /\ Len(edge.contacted) = Len(BACKEND_LIST)
    /\ edge.method = "DELETE" =>
          Cardinality({k \in 1..Len(edge.answers) : edge.answers[k] = 200}) <= 1

\* a DELETE was refused by one broker's 404, a second broker could not be
\* reached, the third closed the tunnel, and the fourth was never asked
C25_Witness ==
    /\ edge.pc = "done" /\ edge.method = "DELETE" /\ edge.status = 200
    /\ edge.answers = <<NOT_FOUND, Unavailable, 200>>
    /\ Len(edge.contacted) < Len(BACKEND_LIST)

\* The accrual timer over two of its periods: tunnels of the shortest and of
\* the default duration, created at any half minute, so that a tick finds
\* unbilled spans that are not whole minutes.
EnvAccrual == [tokens |-> {"tokA"}, durs |-> {MIN_DURATION, 0}, cap |-> MaxTunnels, ids |-> {1},
               answers |-> {ValidAuth("tokA", TRUE)}, oks |-> {TRUE}]

NextAccrual ==
    Http(EnvAccrual) \/ Lifecycle(EnvAccrual) \/ Tick(3 * TimeStep, 2 * MaxTime, {"cleanup", "bill"})

SpecAccrual == Init /\ [][NextAccrual]_vars

\* the usage records a step appends to the queue for a tunnel
Pushed(id) ==
    {k \in (Len(pendingUsage) + 1)..Len(pendingUsage') : pendingUsage'[k].tunnel_id = id}

\* C26: a periodic accrual tick enqueues, for each active tunnel with at least
\* 60 unbilled seconds, exactly one record of 60 * floor(delta / 60) seconds
\* and advances last_billed_at by exactly that; for a tunnel with fewer than
\* 60 unbilled seconds and for every expired or closed tunnel it enqueues
\* nothing and leaves the record as it is.
C26_AccrualTick ==
    [][nextBillAt' # nextBillAt =>
          /\ Len(tunnels') = Len(tunnels)
          /\ \A k \in 1..Len(pendingUsage) : pendingUsage'[k] = pendingUsage[k]
          /\ \A i \in 1..Len(tunnels) :
                LET t == tunnels[i]
                    delta == now - t.last_billed_at
                    whole == BILLING_MINUTE * (delta \div BILLING_MINUTE)
                IN IF t.status = "active" /\ delta >= BILLING_MINUTE
                   THEN /\ Cardinality(Pushed(t.id)) = 1
                        /\ \A k \in Pushed(t.id) : pendingUsage'[k].duration_seconds = whole
                        /\ tunnels'[i] = [t EXCEPT !.last_billed_at = t.last_billed_at + whole]
                   ELSE /\ Pushed(t.id) = {}
                        /\ tunnels'[i] = t]_vars

\* a tick has billed one whole minute of an unbilled span that is longer, next
\* to an expired tunnel that it left alone
C26_Witness ==
    \E i, j \in 1..Len(tunnels) :
        /\ tunnels[i].status = "active"
        /\ tunnels[i].last_billed_at = tunnels[i].created_at + BILLING_MINUTE
        /\ tunnels[i].last_billed_at < now
        /\ nextBillAt = now + BILLING_INTERVAL
        /\ tunnels[j].status = "expired"

\* C27: a DELETE that succeeds at time now enqueues one usage record for
\* now - last_billed_at (none when that is 0), sets the tunnel's status to
\* closed and its expires_at to now, issues the peer removal and reports
\* duration_seconds = now - created_at; it changes no other tunnel and no
\* other field of the closed one.
C27_DeleteEffects ==
    [][/\ \A i \in 1..Len(tunnels) :
            (tunnels[i].status = "active" /\ tunnels'[i].status = "closed") =>
                LET t == tunnels[i]
                    due == now - t.last_billed_at
                IN /\ tunnels' = [tunnels EXCEPT ![i] = [t EXCEPT !.status = "closed", !.expires_at = now]]
                   /\ IF due > 0
                      THEN /\ Len(pendingUsage') = Len(pendingUsage) + 1
                           /\ \A k \in 1..Len(pendingUsage) : pendingUsage'[k] = pendingUsage[k]
                           /\ pendingUsage'[Len(pendingUsage')].tunnel_id = t.id
                           /\ pendingUsage'[Len(pendingUsage')].agent_id = t.agent_id
                           /\ pendingUsage'[Len(pendingUsage')].duration_seconds = due
                      ELSE due = 0 /\ pendingUsage' = pendingUsage
                   /\ \E s \in DOMAIN reqs :
                          /\ reqs'[s].kind = "DELETE" /\ reqs'[s].id = t.id
                          /\ reqs'[s].pc = "removePeer"
                          /\ reqs'[s].body.duration_seconds = now - t.created_at
                   /\ UNCHANGED <<nextClientIP, idsIssued, peers>>
       /\ \A s \in DOMAIN reqs :
            (Responds(s) /\ reqs'[s].kind = "DELETE" /\ reqs'[s].code = 200) =>
                LET t == tunnels[TunnelIndex(reqs[s].id)]
                IN /\ reqs[s].pc = "removePeer"
                   /\ t.status = "closed"
                   /\ reqs'[s].body.status = "closed"
                   /\ reqs'[s].body.duration_seconds = t.expires_at - t.created_at
                   /\ UNCHANGED <<tunnels, pendingUsage, nextClientIP, idsIssued>>]_vars

\* a DELETE has been answered for a tunnel that had been billed a minute
\* before: its last record covers only the seconds since then
C27_Witness ==
    \E s \in DOMAIN reqs :
        /\ reqs[s].kind = "DELETE" /\ reqs[s].pc = "done" /\ reqs[s].code = 200
        /\ pendingUsage # <<>>
        /\ LET t == tunnels[TunnelIndex(reqs[s].id)]
               last == pendingUsage[Len(pendingUsage)]
           IN /\ last.tunnel_id = t.id
              /\ t.last_billed_at > t.created_at
              /\ last.duration_seconds = t.expires_at - t.last_billed_at
              /\ last.duration_seconds < reqs[s].body.duration_seconds

\* C28: a tunnel whose duration is below 60 s and that is left to expire
\* never gets a periodic accrual record, whatever the phase of the accrual
\* timer, and the scan that expires it enqueues exactly one terminal record,
\* which covers its whole duration.
C28_ShortTunnelOnlyTerminal ==
    [][\A i \in 1..Len(tunnels) :
          LET t == tunnels[i] IN
          (t.expires_at - t.created_at < BILLING_MINUTE /\ t.status = "active") =>
              /\ nextBillAt' # nextBillAt => Pushed(t.id) = {}
              /\ (scan' # scan /\ tunnels'[i].status = "expired") =>
                    /\ Cardinality(Pushed(t.id)) = 1
                    /\ \A k \in Pushed(t.id) :
                          pendingUsage'[k].duration_seconds = t.expires_at - t.created_at
                    /\ SecondsFor(billed', t.id) = t.expires_at - t.created_at]_vars

\* C29: with the 10 s scan firing fairly, every active tunnel whose
\* expires_at has passed eventually is no longer active (expired by the scan,
\* unless a GET expires it or a DELETE closes it first), and the first scan
\* that observes expires_at < now makes the transition: once the scan of the
\* current second has run to its end no tunnel past its expires_at is active.
C29_ScanExpiresEveryTunnel ==
    /\ [](scan.pc = "idle" /\ nextCleanupAt > now =>
             \A i \in 1..Len(tunnels) :
                 tunnels[i].expires_at < now => tunnels[i].status # "active")
    /\ \A i \in 1..MaxTunnels :
          (Len(tunnels) >= i /\ tunnels[i].status = "active" /\ tunnels[i].expires_at < now)
              ~> (Len(tunnels) >= i /\ tunnels[i].status # "active")

\* one scan has expired two tunnels, each with its terminal record
C29_Witness ==
    /\ Len(tunnels) >= 2
    /\ scan.pc = "idle" /\ nextCleanupAt = now + CLEANUP_INTERVAL
    /\ \A i \in 1..2 :
          /\ tunnels[i].status = "expired" /\ tunnels[i].expires_at < now
          /\ \E k \in 1..Len(billed) :
                /\ billed[k].tunnel_id = tunnels[i].id /\ billed[k].path = "expiry"
                /\ billed[k].record.timestamp = now

\* The delivery with a keeper that need not answer: the clock, the timers and
\* the `wg` commands are fair as in SpecDelivery, but nothing obliges the
\* keeper to answer a report, and reportUsage sets no timeout on its fetch.
SpecSilentKeeper ==
    /\ Init
    /\ [][NextDelivery]_vars
    /\ WF_vars(Tick(3 * TimeStep, MaxTime, DeliveryTimers))
    /\ WF_vars(BillTick)
    /\ WF_vars(CleanupTick)
    /\ WF_vars(CommandReturned(EnvDelivery))
    /\ WF_vars(ReportTick)
    /\ WF_vars(ReportTickBeyond(3 * TimeStep, MaxTime))

\* the record is in a batch that awaits the keeper's answer
InFlight(r) == \E b \in 1..Len(inflight) : \E j \in 1..Len(inflight[b]) : inflight[b][j] = r

\* C30: when the keeper never answers a usage report the report times out,
\* its batch is put back on the queue and retried: no usage record stays in
\* flight forever.
C30_NoRecordInFlightForever ==
    \A k \in 1..(3 * MaxTunnels) :
        []<>(~(k <= Len(billed) /\ InFlight(billed[k].record)))

\* the seconds of tunnel time used up to the terminate signal, over the tunnels
\* from position i on, that no record accepted by the keeper covers
RECURSIVE LostSeconds(_)
LostSeconds(i) ==
    IF i > Len(tunnels) THEN 0
    ELSE LET t == tunnels[i]
             used == Min(proc.at, t.expires_at) - t.created_at
         IN Max(0, used - SecondsFor(delivered, t.id)) + LostSeconds(i + 1)

\* C31: the usage accrued or accruable at the moment of the terminate signal
\* and never delivered to the keeper is at most 30 seconds of tunnel time,
\* also after failed reports and with a periodic report in flight.
C31_ShutdownLossBounded ==
    proc.pc = "exited" => LostSeconds(1) <= 30

\* C32: when the edge cannot reach the brokers a request needs it answers
\* 502: a GET or DELETE on /v1/tunnel/{id} is answered 404 only when every
\* regional broker responded 404, not when brokers were unreachable.
C32_UnreachableIs502 ==
    edge.pc = "done" =>
        /\ edge.status = NOT_FOUND =>
              /\ Len(edge.answers) = Len(BACKEND_LIST)
              /\ \A k \in 1..Len(edge.answers) : edge.answers[k] = NOT_FOUND
        /\ (Answering = {} /\ \E k \in 1..Len(edge.answers) : edge.answers[k] = Unavailable) =>
              edge.status = 502

(***************************************************************************)
(* The usage queue against a keeper whose answer to an accepted report may *)
(* be unreadable: the response is 2xx, so the keeper has taken the batch,  *)
(* but `await response.json()` throws (the body is not JSON, or the        *)
(* connection is lost while the body is read).  The call sits inside the   *)
(* try block, so the catch puts the batch back on the queue.               *)
(***************************************************************************)
ReportUnreadable(k) ==
    /\ k \in 1..Len(inflight)
    \* (once per record, which keeps the keeper's records finite)
    /\ \A j \in 1..Len(inflight[k]) : Occurrences(delivered, inflight[k][j]) = 0
    /\ inflight' = RemoveAt(inflight, k)
    /\ delivered' = delivered \o inflight[k]
    /\ pendingUsage' = Requeue(pendingUsage, inflight[k])
    /\ UNCHANGED <<edge, overlap, tunnels, nextClientIP, idsIssued, tokenCache, peers, reqs, scan,
                   billed, now, nextCleanupAt, nextBillAt, nextReportAt, proc>>

NextQueue ==
    \/ Http(EnvDelivery)
    \/ Lifecycle(EnvDelivery)
    \/ Delivery
    \/ \E k \in 1..Len(inflight) : ReportUnreadable(k)
    \/ ReportTickBeyond(3 * TimeStep, MaxTime)
    \/ Tick(3 * TimeStep, MaxTime, DeliveryTimers)

SpecQueue == Init /\ [][NextQueue]_vars

\* how many times the record is in a batch that awaits the keeper's answer
RECURSIVE InFlightCount(_, _)
InFlightCount(b, r) ==
    IF b > Len(inflight) THEN 0 ELSE Occurrences(inflight[b], r) + InFlightCount(b + 1, r)

\* C33: before shutdown every usage record ever enqueued is in exactly one of
\* the pending queue, an in-flight batch and the records the keeper has
\* accepted: never in two of them and never dropped, also when reports
\* overlap and when records are enqueued while a report is in flight.
C33_RecordsConserved ==
    proc.pc = "running" =>
        \A k \in 1..Len(billed) :
            LET r == billed[k].record IN
            Occurrences(pendingUsage, r) + InFlightCount(1, r) + Occurrences(delivered, r)
                = Occurrences(Enqueued, r)

\* C34: a tunnel's lifetime never exceeds what was requested: expires_at,
\* set to created_at plus the duration by the create, never moves to a later
\* time, and neither the seconds billed for the tunnel nor the
\* duration_seconds a GET or DELETE reports exceed expires_at - created_at,
\* also when a DELETE or an accrual tick reaches the tunnel after expires_at
\* has passed and before the expiry was observed.
C34_WithinRequestedDuration ==
    /\ [](/\ \A i \in 1..Len(tunnels) :
                SecondsFor(billed, tunnels[i].id) <= tunnels[i].expires_at - tunnels[i].created_at
          /\ \A s \in DOMAIN reqs :
                (reqs[s].kind \in {"GET", "DELETE"} /\ reqs[s].pc = "done" /\ reqs[s].code = 200) =>
                    LET t == tunnels[TunnelIndex(reqs[s].id)]
                    IN reqs[s].body.duration_seconds <= t.expires_at - t.created_at)
    /\ [][\A i \in 1..Len(tunnels) : tunnels'[i].expires_at <= tunnels[i].expires_at]_vars

(***************************************************************************)
(* C35: a create passes the affordability test only on an answer the       *)
(* keeper gave for this request's own quantity (duration/3600 tunnel       *)
(* hours): either the handler asked the keeper itself, or the cached       *)
(* verification it used was made for the same quantity, never for a GET,   *)
(* DELETE or list call or a create of another duration.                    *)
(***************************************************************************)
\* the step in which POST handler s gets past `auth.can_afford === false`
PassesAffordability(s) ==
    /\ reqs'[s].kind = "POST"
    /\ reqs'[s].pc = "addPeer"
    /\ reqs[s].pc # "addPeer"

C35_AffordabilityForOwnQuantity ==
    [][\A s \in DOMAIN reqs :
            PassesAffordability(s)
            => \/ reqs[s].pc = "verify"
               \/ tokenCache[reqs'[s].token].quantity = QuantityAsked(reqs'[s])]_vars

(***************************************************************************)
(* Overlapping scans.  setInterval starts cleanupExpiredTunnels every 10 s *)
(* whether or not the previous invocation has returned: while one scan is  *)
(* suspended at `await removePeer` on a slow `wg` command the timer starts *)
(* a second one, and the two loops, a DELETE and a GET interleave at their *)
(* awaits.  Two short tunnels of one agent, two requests in progress.      *)
(***************************************************************************)
\* the loop of the second invocation from position `from` to its next await
OverlapRun(from, scanNow) ==
    LET i == NextExpired(from, scanNow) IN
    IF i = 0
    THEN overlap' = IdleScan /\ UNCHANGED <<tunnels, pendingUsage, billed>>
    ELSE LET t == tunnels[i]
             remainingSeconds == RemainingSeconds(t)
         IN /\ IF remainingSeconds > 0
               THEN /\ pendingUsage' = Append(pendingUsage, UsageRecord(t, remainingSeconds))
                    /\ billed' = Append(billed, BilledEntry(t, remainingSeconds, t.expires_at, "expiry"))
               ELSE UNCHANGED <<pendingUsage, billed>>
            /\ tunnels' = [tunnels EXCEPT ![i].status = "expired"]
            /\ overlap' = [pc |-> "removePeer", now |-> scanNow, pos |-> i]

\* the clock moves on while the `wg` command of the first scan is still running
SlowExec(step, horizon) ==
    /\ scan.pc = "removePeer"
    /\ overlap.pc = "idle"
    /\ \A s \in DOMAIN reqs : reqs[s].pc \notin {"addPeer", "removePeer"}
    /\ now + step <= horizon
    /\ ~TimerDue({"cleanup"})
    /\ now' = now + step
    /\ reqs' = [s \in DOMAIN reqs |-> IF reqs[s].pc = "done" THEN IdleReq ELSE reqs[s]]
    /\ UNCHANGED <<edge, overlap, tunnels, nextClientIP, idsIssued, pendingUsage, tokenCache, peers,
                   scan, inflight, delivered, billed, nextCleanupAt, nextBillAt, nextReportAt, proc>>

\* the 10 s interval timer fires while the first scan is suspended
OverlapTick ==
    /\ now >= nextCleanupAt
    /\ scan.pc = "removePeer"
    /\ overlap.pc = "idle"
    /\ nextCleanupAt' = now + CLEANUP_INTERVAL
    /\ OverlapRun(1, now)
    /\ UNCHANGED <<edge, nextClientIP, idsIssued, tokenCache, peers, reqs, scan, inflight, delivered,
                   now, nextBillAt, nextReportAt, proc>>

\* removePeer has returned to the second scan: its loop goes on
OverlapPeerDone(ok) ==
    /\ overlap.pc = "removePeer"
    /\ peers' = RemovePeer(peers, tunnels[overlap.pos].client_public_key, ok)
    /\ OverlapRun(overlap.pos + 1, overlap.now)
    /\ UNCHANGED <<edge, nextClientIP, idsIssued, tokenCache, reqs, scan, inflight, delivered,
                   now, nextCleanupAt, nextBillAt, nextReportAt, proc>>

EnvOverlap == [tokens |-> {"tokA"}, durs |-> {MIN_DURATION}, cap |-> MaxTunnels,
               ids |-> 1..MaxTunnels, answers |-> {ValidAuth("tokA", TRUE)}, oks |-> {TRUE}]

\* the first scan's removePeer and loop may go on while the second is suspended,
\* and the reverse: the two invocations are independent chains of continuations
NextOverlap ==
    \/ Http(EnvOverlap)
    \/ CleanupTick
    \/ CleanupPeerDone(TRUE)
    \/ OverlapTick
    \/ OverlapPeerDone(TRUE)
    \/ SlowExec(TimeStep, MaxTime)
    \/ Tick(3 * TimeStep, MaxTime, {"cleanup"})

SpecOverlap == InitRace /\ [][NextOverlap]_vars

\* the handlers that make tunnel i's terminal transition in this step: a DELETE
\* or GET handler that leaves for its removePeer, or a scan that does
Performers(i) ==
    {<<"handler", s>> : s \in {x \in DOMAIN reqs :
            /\ reqs'[x] # reqs[x]
            /\ reqs'[x].kind \in {"GET", "DELETE"}
            /\ reqs'[x].pc = "removePeer"
            /\ reqs'[x].id = tunnels[i].id}}
    \cup (IF scan' # scan /\ scan'.pc = "removePeer" /\ scan'.pos = i
          THEN {<<"scan", 1>>} ELSE {})
    \cup (IF overlap' # overlap /\ overlap'.pc = "removePeer" /\ overlap'.pos = i
          THEN {<<"scan", 2>>} ELSE {})

\* the terminal usage records enqueued so far for a tunnel
TerminalRecords(id) ==
    {k \in 1..Len(billed) : billed[k].tunnel_id = id /\ billed[k].path \in {"expiry", "close"}}

\* C36: for each tunnel, however DELETE handlers, GET handlers and
\* overlapping lifecycle scans interleave, the terminal transition is made
\* once, by exactly one of them (a terminal status is never left, and the step
\* that leaves active is the step of one handler or scan); at most one
\* terminal usage record is enqueued for the tunnel, in that step; and a
\* DELETE answers 200 only if it made the transition itself.
C36_OneTerminalTransition ==
    /\ [](\A i \in 1..Len(tunnels) :
            /\ Cardinality(TerminalRecords(tunnels[i].id)) <= 1
            /\ tunnels[i].status = "active" => TerminalRecords(tunnels[i].id) = {}
            /\ Cardinality({s \in DOMAIN reqs :
                    /\ reqs[s].kind = "DELETE" /\ reqs[s].id = tunnels[i].id
                    /\ reqs[s].pc = "removePeer" \/ (reqs[s].pc = "done" /\ reqs[s].code = 200)})
                 <= 1)
    /\ [][/\ \A i \in 1..Len(tunnels) :
                /\ tunnels[i].status # "active" => /\ tunnels'[i].status = tunnels[i].status
                                                   /\ Performers(i) = {}
                /\ tunnels'[i].status # tunnels[i].status => Cardinality(Performers(i)) = 1
                /\ tunnels'[i].status = tunnels[i].status => Performers(i) = {}
          /\ \A s \in DOMAIN reqs :
                (Responds(s) /\ reqs'[s].kind = "DELETE" /\ reqs'[s].code = 200)
                => /\ reqs[s].pc = "removePeer"
                   /\ reqs[s].kind = "DELETE"
                   /\ tunnels[TunnelIndex(reqs[s].id)].status = "closed"]_vars

\* two scans are suspended at once, each in the expiry of another tunnel,
\* after a DELETE that came behind the first scan was refused
C36_Witness ==
    /\ scan.pc = "removePeer" /\ overlap.pc = "removePeer"
    /\ scan.pos # overlap.pos
    /\ tunnels[scan.pos].status = "expired" /\ tunnels[overlap.pos].status = "expired"
    /\ \E s \in DOMAIN reqs :
            /\ reqs[s].kind = "DELETE" /\ reqs[s].pc = "verify"
            /\ reqs[s].id = tunnels[overlap.pos].id

====
